---- MODULE Spec2Model ----
(***************************************************************************)
(* State-machine model of the shape-morphing animation core: the global    *)
(* mode held by App, the per-subsystem progress refs advanced by damp()    *)
(* in each useFrame callback, the rotation-burst effects (useEffect +      *)
(* setTimeout) of Ornaments, StarTop and Experience, the memoised          *)
(* dual-position populations with their generators, the per-entity         *)
(* rotation, the camera zoom of Experience and the click state of the      *)
(* hidden character.                                                       *)
(*                                                                         *)
(* Progress values are fixed-point integers with eight decimal digits      *)
(* (One = 10^8); lengths and random draws carry three (Milli = 10^3).      *)
(* Time is counted in ticks of 1/240 s, so that 1/60 s, 0.1 s, 1.5 s and   *)
(* 3 s are whole numbers of ticks.                                         *)
(***************************************************************************)
EXTENDS Integers, FiniteSets, Sequences, TLC

\* ---------------------------------------------------------------- bounds
MaxToggles == 3          \* presses of the overlay button in one behaviour
MaxFrames  == 3          \* time steps (each followed by a frame tick) in one behaviour
MaxUnmounts == 1         \* subsystem disposals in one behaviour of SpecLife
MaxSettleToggles == 2    \* presses of the button in one behaviour of SpecSettle
NumSamples == 2          \* distinct random populations a generator may draw
SmallStep == 24          \* a short time step, in ticks (0.1 s)
BigStep == 360           \* a long time step, in ticks (1.5 s)
NumEntities == 2         \* entities of a batched subsystem (count)
MaxOrbits == 1           \* drags of the orbit controls in one behaviour
OrbitWindow == 1         \* frame ticks after a press within which the user drags
MaxClicks == 1           \* clicks on the hidden character in one behaviour
MaxPresses == 2          \* presses of the button in one behaviour of SpecHost, SpecCamera;
                         \* user inputs in one behaviour of SpecZoom
MaxInputs == 3           \* user inputs (press, click, teardown) in one behaviour of SpecHost

\* ------------------------------------------------------ units and scales
One == 100000000         \* fixed-point 1.0
Limb == 10000            \* One = Limb * Limb
TicksPerSecond == 240

Abs(a) == IF a < 0 THEN -a ELSE a
Max(a, b) == IF a >= b THEN a ELSE b
Min(a, b) == IF a <= b THEN a ELSE b

\* a / b rounded toward zero, 0 < b
TruncDiv(a, b) == IF a >= 0 THEN a \div b ELSE -((-a) \div b)

\* Newton iteration for floor(sqrt(n)), started above the root
SqrtIter[n \in Nat, x \in Nat] ==
  LET y == (x + (n \div x)) \div 2
  IN  IF y >= x THEN x ELSE SqrtIter[n, y]

\* Math.sqrt on whole numbers (rounded down)
Sqrt(n) == IF n <= 0 THEN 0 ELSE SqrtIter[n, n]

\* floor(a * b / One) for 0 <= a, b, computed limb-wise in 32-bit integers
MulU(a, b) ==
  LET a1 == a \div Limb
      a0 == a % Limb
      b1 == b \div Limb
      b0 == b % Limb
  IN  a1 * b1 + ((a1 * b0 + a0 * b1 + ((a0 * b0) \div Limb)) \div Limb)

\* a * b on fixed-point numbers (truncating)
Mul(a, b) ==
  IF (a < 0) = (b < 0) THEN MulU(Abs(a), Abs(b)) ELSE -MulU(Abs(a), Abs(b))

RECURSIVE Digits(_, _, _, _)
\* q * 10^n + floor(r * 10^n / b) for 0 <= r < b, one decimal digit at a time
Digits(q, r, b, n) ==
  IF n = 0 THEN q
  ELSE Digits(10 * q + ((10 * r) \div b), (10 * r) % b, b, n - 1)

RECURSIVE Div(_, _)
\* a / b on fixed-point numbers, 0 <= a, 0 < b (a divisor of 2.0 or more is
\* first shortened by one digit so that the long division stays in 32 bits)
Div(a, b) ==
  IF b >= 2 * One THEN Div(a \div 10, b \div 10)
  ELSE Digits(a \div b, a % b, b, 8)

\* a frame delta of n ticks, in seconds
Seconds(n) == n * (One \div TicksPerSecond) + ((n * (One % TicksPerSecond)) \div TicksPerSecond)

\* ------------------------------------------------- damp (maath/easing)
\* damp(current, prop, target, smoothTime, delta) as the useFrame callbacks
\* call it: maxSpeed = Infinity, easing = exp, eps = 0.001.  The fourth
\* argument is a smooth time (omega = 2 / smoothTime), and the velocity is
\* kept on the ref between calls; inside eps the value snaps to the target
\* and the velocity is left as it is.
DampEps == One \div 1000
MinSmoothTime == One \div 10000
Coef48 == 48000000       \* 0.48
Coef235 == 23500000      \* 0.235

\* exp(t) = 1 / (1 + t + 0.48*t*t + 0.235*t*t*t)
EaseExp(t) ==
  Div(One, One + t + Mul(Mul(Coef48, t), t) + Mul(Mul(Mul(Coef235, t), t), t))

Damp(cur, vel, target, smoothTime, delta) ==
  IF Abs(cur - target) <= DampEps
  THEN [cur |-> target, vel |-> vel]
  ELSE LET st == Max(MinSmoothTime, smoothTime)
           omega == Div(2 * One, st)
           t == EaseExp(Mul(omega, delta))
           change == cur - target
           temp == Mul(vel + Mul(omega, change), delta)
           vel2 == Mul(vel - Mul(omega, temp), t)
           output == target + Mul(change + temp, t)
       IN  IF ((target - cur) > 0) = (output > target)
           THEN [cur |-> target, vel |-> 0]
           ELSE [cur |-> output, vel |-> vel2]

\* ------------------------------------------------------------ the scene
TreeStates == {"SCATTERED", "TREE_SHAPE"}

\* subsystems that keep a progress ref advanced by damp() in useFrame
ProgressSubs == {"Foliage", "MagicSpiral", "Ornaments", "StarTop", "GingerbreadMan"}
\* subsystems with a rotation-burst useEffect
BurstSubs == {"Ornaments", "StarTop", "Experience"}
Subsystems == ProgressSubs \cup BurstSubs

BurstTicks == 720        \* setTimeout(..., 3000): 3 s
BurstOn == 20            \* burstRef.current = 2.0 / autoRotateSpeed = 2.0 (tenths)
BurstOff == 10           \* burstRef.current = 1.0 (tenths)
SlowDrift == 3           \* autoRotateSpeed = 0.3 (tenths)
NoTimer == 0             \* the effect returned no cleanup function

\* elapsed-time steps between events, in ticks
Steps == {SmallStep, BigStep}
SettleSteps == {1, 4}    \* 1/240 s and 1/60 s

VARIABLES
  treeState,       \* App: useState<TreeState>
  now,             \* wall-clock time, in ticks
  lastFrame,       \* time of the previous frame tick (THREE.Clock)
  mounted,         \* which subsystems are mounted (their refs are attached)
  progress,        \* progress.current of each subsystem
  velocity,        \* progress.__damp.velocity_current of each subsystem
  burstRef,        \* burstRef.current of Ornaments and StarTop, in tenths
  autoRotateSpeed, \* controlsRef.current.autoRotateSpeed, in tenths
  timers,          \* pending setTimeout entries
  cleanup,         \* timer captured by each effect's cleanup closure
  nextTimerId,     \* next handle setTimeout returns
  data,            \* which random population each useMemo holds
  memoRange,       \* identity of the range array in Ornaments' memo deps
  frames,          \* history: frame ticks so far
  toggles,         \* history: presses of the overlay button so far
  unmounts,        \* history: disposals so far
  elapses,         \* history: time steps since the last frame tick
  lastDelta,       \* history: delta handed to damp() by the last frame tick
  effectAt,        \* history: time each burst effect last ran
  prevScatterAt,   \* history: time of the preceding SCATTERED run of the effect
  sinceToggle,     \* history: frame ticks since the mode last changed
  settleCount,     \* history: frame ticks each subsystem needed to settle, per mode
  disposedPending, \* history: deadline of the timer pending at disposal
  camPos,          \* camera.position, in thousandths
  orbits,          \* history: drags of the orbit controls so far
  active,          \* GingerbreadMan: useState(false)
  modeRef,         \* GingerbreadMan: modeRef.current
  modeVel,         \* GingerbreadMan: modeRef.__damp.velocity_current
  clicks,          \* history: clicks on the hidden character so far
  tempRot,         \* Ornaments: tempObj.rotation.x, in ten-thousandths
  rotation,        \* Ornaments: rotation written into each instance matrix
  starRot,         \* StarTop: meshRef.current.rotation.y
  blendP,          \* progress value each entity was blended with in the last frame tick
  call,            \* the latest call of a generator or utility function
  switchAt         \* history: time the mode last changed

camVars == << camPos, orbits >>
charVars == << active, modeRef, modeVel, clicks >>
spinVars == << tempRot, rotation, starRot, blendP >>

coreVars == << treeState, now, lastFrame, mounted, progress, velocity, burstRef,
               autoRotateSpeed, timers, cleanup, nextTimerId, data, memoRange,
               frames, toggles, unmounts, elapses, lastDelta, effectAt,
               prevScatterAt, sinceToggle, settleCount, disposedPending >>

vars == << coreVars, camVars, charVars, spinVars, call, switchAt >>

histVars == << frames, toggles, unmounts, elapses, lastDelta, effectAt,
               prevScatterAt, sinceToggle, settleCount, disposedPending >>

\* ------------------------------------------------------- burst effects
\* the multiplier a burst-capable subsystem exposes
Multiplier(s) == IF s = "Experience" THEN autoRotateSpeed ELSE burstRef[s]

\* position of a subsystem's effect in the commit (children before parents)
TimerRank(s) == CASE s = "StarTop" -> 0 [] s = "Ornaments" -> 1 [] OTHER -> 2

\* variant: the reversion is scheduled after half the duration
SetTimeoutEarly(s, id, at) == [id |-> id, owner |-> s, deadline |-> at + (BurstTicks \div 2)]

\* setTimeout(callback, 3000) called at time `at`
SetTimeout(s, id, at) == [id |-> id, owner |-> s, deadline |-> at + BurstTicks]

\* variant: clearTimeout that cancels nothing
ClearTimeoutNoop(ts, id) == ts

\* clearTimeout(id)
ClearTimeout(ts, id) == {t \in ts : t.id # id}

\* variant: effects that return no cleanup
RunCleanupsNone(R, ts) == ts

\* the cleanup functions `() => clearTimeout(timer)` of the subsystems in R
RunCleanups(R, ts) ==
  {t \in ts : \A s \in R : cleanup[s] = NoTimer \/ t \in ClearTimeout({t}, cleanup[s])}

\* variant: an effect body without its else branch
EffectValueKeep(s, ts) ==
  IF ts = "SCATTERED" THEN BurstOn ELSE Multiplier(s)

\* value the effect body writes for mode ts
EffectValue(s, ts) ==
  IF ts = "SCATTERED" THEN BurstOn
  ELSE IF s = "Experience" THEN SlowDrift ELSE BurstOff

\* value the timer callback writes
RevertValue(s) == IF s = "Experience" THEN SlowDrift ELSE BurstOff

\* timers the effect bodies of the subsystems in R arm for mode ts
EffectTimers(R, ts) ==
  IF ts = "SCATTERED"
  THEN {SetTimeout(s, nextTimerId + TimerRank(s), now) : s \in R}
  ELSE {}

\* cleanup closure left by the effect body of s for mode ts
EffectCleanup(s, ts) ==
  IF ts = "SCATTERED" THEN nextTimerId + TimerRank(s) ELSE NoTimer

\* useEffect(..., [treeState]) of the subsystems in R: previous cleanup, then body
RunEffects(R, ts) ==
  /\ timers' = RunCleanups(R, timers) \cup EffectTimers(R, ts)
  /\ cleanup' = [s \in BurstSubs |->
                   IF s \in R THEN EffectCleanup(s, ts) ELSE cleanup[s]]
  /\ nextTimerId' = IF ts = "SCATTERED" /\ R # {} THEN nextTimerId + 3 ELSE nextTimerId
  /\ burstRef' = [s \in DOMAIN burstRef |->
                   IF s \in R THEN EffectValue(s, ts) ELSE burstRef[s]]
  /\ autoRotateSpeed' = IF "Experience" \in R THEN EffectValue("Experience", ts)
                        ELSE autoRotateSpeed
  /\ effectAt' = [s \in BurstSubs |-> IF s \in R THEN now ELSE effectAt[s]]
  /\ prevScatterAt' = [s \in BurstSubs |->
                   IF s \in R /\ cleanup[s] # NoTimer THEN effectAt[s]
                   ELSE prevScatterAt[s]]

\* ---------------------------------------------------- memoised populations
\* a fresh array literal is never identical to the one of the previous render
NewArray(prev) == 1 - prev

\* useMemo deps [count, type, range] compared with Object.is
DepsChanged(prevRange, range) == prevRange # range

\* ------------------------------------------------------------ camera zoom
Milli == 1000            \* lengths are fixed-point with three decimals
TreeDist == 33 * Milli   \* targetDist in TREE_SHAPE
ScatterDist == 5 * Milli \* targetDist in SCATTERED
ZoomThreshold == Milli \div 10   \* 0.1
SafeDelta == 24          \* Math.min(delta, 0.1): 0.1 s in ticks
ZoomSpeed == 25          \* 2.5, in tenths

\* Vector3.length()
Length(v) == Sqrt(v[1] * v[1] + v[2] * v[2] + v[3] * v[3])

\* variant: the camera put on the z axis at distance l
SetLengthAxis(v, l) == [i \in 1..3 |-> IF i = 3 THEN l ELSE 0]

\* Vector3.setLength(l): normalize() (a zero vector is divided by 1), then
\* multiplyScalar(l)
SetLength(v, l) ==
  LET len == Length(v)
      d == IF len = 0 THEN 1 ELSE len
  IN  [i \in 1..3 |-> TruncDiv(v[i] * l, d)]

\* variant: the frame delta clamped at 0.5 s instead of 0.1 s
CameraZoomLooseClamp(pos, ts, delta) ==
  LET safeDelta == Min(delta, 5 * SafeDelta)
      targetDist == IF ts = "TREE_SHAPE" THEN TreeDist ELSE ScatterDist
      currentLen == Length(pos)
      diff == targetDist - currentLen
      move == TruncDiv(diff * safeDelta * ZoomSpeed, 10 * TicksPerSecond)
      newLen == currentLen + move
  IN  IF Abs(diff) > ZoomThreshold /\ newLen > ZoomThreshold
      THEN SetLength(pos, newLen)
      ELSE pos

\* the camera useFrame callback of Experience, delta in ticks
CameraZoom(pos, ts, delta) ==
  LET safeDelta == Min(delta, SafeDelta)
      targetDist == IF ts = "TREE_SHAPE" THEN TreeDist ELSE ScatterDist
      currentLen == Length(pos)
      diff == targetDist - currentLen
      move == TruncDiv(diff * safeDelta * ZoomSpeed, 10 * TicksPerSecond)
      newLen == currentLen + move
  IN  IF Abs(diff) > ZoomThreshold /\ newLen > ZoomThreshold
      THEN SetLength(pos, newLen)
      ELSE pos

\* viewing directions the orbit controls can turn the camera to: whole-number
\* vectors v of whole-number length n
ViewDirs == { [v |-> << 0, 0, 1 >>, n |-> 1], [v |-> << 3, 0, 4 >>, n |-> 5],
              [v |-> << 2, 3, 6 >>, n |-> 7], [v |-> << -6, 2, -3 >>, n |-> 7] }

\* distances the wheel of the orbit controls can bring the camera to, within
\* [minDistance, maxDistance] = [2, 50]
DollyDists == {2 * Milli, 40 * Milli}

\* ------------------------------------------- generators and utilities
\* Lengths and random draws are fixed-point with three decimals (Milli).
\* Angles are taken on the grid of quarter turns, where Math.cos and
\* Math.sin are whole numbers; the draws below are chosen on that grid.

\* a / b rounded toward zero, b # 0
Quot(a, b) == IF b > 0 THEN TruncDiv(a, b) ELSE TruncDiv(-a, -b)

\* Math.cos and Math.sin of q quarter turns, times Milli
CosQ(q) == CASE q % 4 = 0 -> Milli [] q % 4 = 2 -> -Milli [] OTHER -> 0
SinQ(q) == CASE q % 4 = 1 -> Milli [] q % 4 = 3 -> -Milli [] OTHER -> 0

\* Math.cbrt on [0, 1)
Cbrt(w) ==
  CHOOSE r \in 0..Milli :
    /\ r * r * r <= w * Milli * Milli
    /\ (r + 1) * (r + 1) * (r + 1) > w * Milli * Milli

\* draws of Math.random()
DrawsU == {0, 250, 500, 750}          \* theta = 2*PI*u on the quarter-turn grid
DrawsV == {0, 100, 200, 500, 800, 900} \* cos(phi) = 2*v - 1 with a whole sine
DrawsW == {0, 1, 125, 729, 999}
DrawsT == {0, 50, 250, 500, 750, 900, 950}
DrawsJ == {0, 500, 999}

\* normalize(val, max, min): JavaScript division, which yields Infinity or
\* NaN for a zero divisor and never throws
normalize(val, max, min) ==
  IF max - min # 0
  THEN [kind |-> "number", value |-> Quot((val - min) * Milli, max - min)]
  ELSE IF val - min = 0
       THEN [kind |-> "NaN", value |-> 0]
       ELSE [kind |-> "Infinity", value |-> IF val - min > 0 THEN 1 ELSE -1]

\* getRandomSpherePoint(radius) for the draws u, v, w
getRandomSpherePoint(radius, u, v, w) ==
  LET cosPhi == 2 * v - Milli
      sinPhi == Sqrt(Milli * Milli - cosPhi * cosPhi)
      r == TruncDiv(Cbrt(w) * radius, Milli)
      q == (4 * u) \div Milli
      x == TruncDiv(TruncDiv(r * sinPhi, Milli) * CosQ(q), Milli)
      y == TruncDiv(TruncDiv(r * sinPhi, Milli) * SinQ(q), Milli)
      z == TruncDiv(r * cosPhi, Milli)
  IN  << x, y, z >>

\* getTreeSpiralPoint(t, maxRadius, height, spirals, jitter) for the draws
\* rx, ry, rz
getTreeSpiralPoint(t, maxRadius, height, spirals, jitter, rx, ry, rz) ==
  LET y == TruncDiv((t - Milli \div 2) * height, Milli)
      currentRadius == TruncDiv(maxRadius * (Milli - t), Milli)
      q == (4 * t * spirals) \div Milli
      x == TruncDiv(CosQ(q) * currentRadius, Milli)
      z == TruncDiv(SinQ(q) * currentRadius, Milli)
      randX == TruncDiv((rx - Milli \div 2) * jitter, Milli)
      randY == TruncDiv((ry - Milli \div 2) * jitter, Milli)
      randZ == TruncDiv((rz - Milli \div 2) * jitter, Milli)
  IN  << x + randX, y + randY, z + randZ >>

\* subsystems whose entities have a scatterPos from the sphere generator
ScatterSubs == ProgressSubs
\* subsystems whose formation positions lie on the helix
CurveSubs == {"Ornaments", "Foliage", "MagicSpiral"}

\* radius each subsystem passes to getRandomSpherePoint
ScatterRadius(s) ==
  CASE s = "StarTop" -> 12 * Milli
    [] s = "Ornaments" -> 14 * Milli
    [] s = "MagicSpiral" -> 20 * Milli
    [] OTHER -> 15 * Milli

\* scatterPos as the useMemo of subsystem s builds it
ScatterPos(s, u, v, w) ==
  LET scatterP == getRandomSpherePoint(ScatterRadius(s), u, v, w)
  IN  IF s = "StarTop"
      THEN [scatterP EXCEPT ![2] = Abs(scatterP[2]) + 5 * Milli]
      ELSE scatterP

\* the range prop of an Ornaments instance: the ones Experience passes, and
\* ranges outside [0, 1]
Ranges == { << 0, 1000 >>, << 0, 400 >>, << 500, 1500 >>, << -1000, 0 >>, << 0, 2000 >> }

\* maxRadius, height, spirals and jitter of the helix of subsystem s
CurveParams(s) ==
  CASE s = "Ornaments" -> [R |-> 5500, H |-> 13000, turns |-> 15, jitter |-> 1200]
    [] s = "Foliage" -> [R |-> 6000, H |-> 14000, turns |-> 15, jitter |-> 600]
    [] OTHER -> [R |-> 7000, H |-> 15000, turns |-> 4, jitter |-> 0]

\* normalized height of an entity: minT + Math.random() * rangeSpan in
\* Ornaments, Math.pow(Math.random(), 0.8) in Foliage, i / count in MagicSpiral
HeightParam(s, range, draw) ==
  IF s = "Ornaments"
  THEN range[1] + TruncDiv(draw * (range[2] - range[1]), Milli)
  ELSE draw

\* treePos as the useMemo of subsystem s builds it; MagicSpiral computes its
\* helix inline
TreePos(s, t, rx, ry, rz) ==
  LET c == CurveParams(s)
  IN  IF s = "MagicSpiral"
      THEN LET q == (4 * t * c.turns) \div Milli
               currentRadius == TruncDiv(c.R * (Milli - t), Milli) + Milli \div 2
               y == TruncDiv((t - Milli \div 2) * c.H, Milli)
           IN  << TruncDiv(CosQ(q) * currentRadius, Milli), y,
                  TruncDiv(SinQ(q) * currentRadius, Milli) >>
      ELSE getTreeSpiralPoint(t, c.R, c.H, c.turns, c.jitter, rx, ry, rz)

\* --------------------------------------------------- per-entity rotation
\* rotationSpeed.x of entity i: a draw of (Math.random() - 0.5) * 0.01, in
\* thousandths of a radian
RotationSpeed(i) == ((8 * i) % 11) - 5

RECURSIVE SpinUpTo(_, _)
\* what the forEach loop has added to tempObj.rotation.x once it has
\* handled entities 1..i
SpinUpTo(burstMult, i) ==
  IF i = 0 THEN 0
  ELSE SpinUpTo(burstMult, i - 1) + RotationSpeed(i) * burstMult

StarSpin == 15           \* delta * 1.5, in tenths

\* variant: p read before damp() has run
ReadProgressStale(before, after) == before

\* const p = progress.current, read after damp() has run
ReadProgress(before, after) == after

\* ------------------------------------------------------------------ Init
Init ==
  /\ treeState = "TREE_SHAPE"
  /\ now = 0
  /\ lastFrame = 0
  /\ mounted = [s \in Subsystems |-> TRUE]
  /\ progress = [s \in ProgressSubs |-> 0]
  /\ velocity = [s \in ProgressSubs |-> 0]
  /\ burstRef = [s \in {"Ornaments", "StarTop"} |-> BurstOff]
  /\ autoRotateSpeed = SlowDrift
  /\ timers = {}
  /\ cleanup = [s \in BurstSubs |-> NoTimer]
  /\ nextTimerId = 1
  /\ data = [s \in ProgressSubs |-> 1]
  /\ memoRange = 0
  /\ frames = 0
  /\ toggles = 0
  /\ unmounts = 0
  /\ elapses = 0
  /\ lastDelta = 0
  /\ effectAt = [s \in BurstSubs |-> 0]
  /\ prevScatterAt = [s \in BurstSubs |-> -1]
  /\ sinceToggle = 0
  /\ settleCount = [s \in ProgressSubs |-> [m \in TreeStates |-> 0]]
  /\ disposedPending = [s \in BurstSubs |-> -1]
  /\ camPos = << 0, 0, TreeDist >>
  /\ orbits = 0
  /\ active = FALSE
  /\ modeRef = 0
  /\ modeVel = 0
  /\ clicks = 0
  /\ tempRot = 0
  /\ rotation = [i \in 1..NumEntities |-> 0]
  /\ starRot = 0
  /\ blendP = [s \in ProgressSubs |-> [i \in 1..NumEntities |-> 0]]
  /\ call = [fn |-> "none"]
  /\ switchAt = 0

\* ---------------------------------------------------------------- actions
Flip(ts) == IF ts = "TREE_SHAPE" THEN "SCATTERED" ELSE "TREE_SHAPE"

\* variant: the commit without its effects (left to a later task)
RenderDeferred ==
  /\ treeState' = Flip(treeState)
  /\ sinceToggle' = 0
  /\ switchAt' = now
  /\ UNCHANGED << now, lastFrame, mounted, progress, velocity, frames,
                  unmounts, elapses, lastDelta, settleCount, disposedPending,
                  timers, cleanup, nextTimerId, burstRef, autoRotateSpeed,
                  effectAt, prevScatterAt, data, memoRange >>
  /\ UNCHANGED << camVars, charVars, spinVars, call >>

\* Overlay button onClick: setTreeState, re-render of App and Experience,
\* commit (the useFrame callbacks now close over the new mode), and the
\* effects of every mounted subsystem, flushed with the commit of a click
Render ==
  /\ treeState' = Flip(treeState)
  /\ RunEffects({s \in BurstSubs : mounted[s]}, treeState')
  /\ LET range == NewArray(memoRange)
     IN  /\ memoRange' = IF mounted["Ornaments"] THEN range ELSE memoRange
         /\ \E n \in 1..NumSamples :
              data' = [data EXCEPT !["Ornaments"] =
                         IF mounted["Ornaments"] /\ DepsChanged(memoRange, range)
                         THEN n ELSE @]
  /\ sinceToggle' = 0
  /\ switchAt' = now
  /\ UNCHANGED << now, lastFrame, mounted, progress, velocity, frames,
                  unmounts, elapses, lastDelta, settleCount, disposedPending >>
  /\ UNCHANGED << camVars, charVars, spinVars, call >>

Toggle ==
  /\ toggles < MaxToggles
  /\ toggles' = toggles + 1
  /\ Render

\* the overlay button in the behaviours with user input on the scene
Press ==
  /\ toggles < MaxPresses
  /\ toggles' = toggles + 1
  /\ Render

\* the earliest pending deadline not before `upTo`, else `upTo`
NextStop(upTo) ==
  IF \E t \in timers : t.deadline < upTo
  THEN CHOOSE m \in {t.deadline : t \in timers} :
         \A t \in timers : m <= t.deadline
  ELSE upTo

\* time passes by d, or up to the next pending deadline if that comes first:
\* a timer that is due runs before time moves on
Tick(d) ==
  /\ \A t \in timers : now < t.deadline
  /\ now' = NextStop(now + d)
  /\ elapses' = elapses + 1
  /\ UNCHANGED << treeState, lastFrame, mounted, progress, velocity, burstRef,
                  autoRotateSpeed, timers, cleanup, nextTimerId, data, memoRange,
                  frames, toggles, unmounts, lastDelta, effectAt, prevScatterAt,
                  sinceToggle, settleCount, disposedPending >>
  /\ UNCHANGED << camVars, charVars, spinVars, call, switchAt >>

\* time passes in one step between two frame ticks
Elapse(d) ==
  /\ frames < MaxFrames
  /\ elapses = 0
  /\ Tick(d)

\* the setTimeout callback of a burst effect
TimerFire(t) ==
  /\ t \in timers
  /\ now >= t.deadline
  /\ timers' = timers \ {t}
  /\ burstRef' = [s \in DOMAIN burstRef |->
                    IF s = t.owner THEN RevertValue(s) ELSE burstRef[s]]
  /\ autoRotateSpeed' = IF t.owner = "Experience" /\ mounted["Experience"]
                        THEN RevertValue("Experience") ELSE autoRotateSpeed
  /\ UNCHANGED << treeState, now, lastFrame, mounted, progress, velocity,
                  cleanup, nextTimerId, data, memoRange, histVars >>
  /\ UNCHANGED << camVars, charVars, spinVars, call, switchAt >>

\* variant: the two smooth times exchanged
DampSpeedSwapped(s, ts) ==
  IF ts = "TREE_SHAPE" THEN (5 * One) \div 2 ELSE One

\* smoothTime each useFrame passes to damp()
DampSpeed(s, ts) ==
  IF ts = "TREE_SHAPE" THEN One
  ELSE IF s = "GingerbreadMan" THEN 2 * One ELSE (5 * One) \div 2

DampTarget(ts) == IF ts = "TREE_SHAPE" THEN One ELSE 0

\* damp(progress, 'current', isTree ? 1 : 0, dampSpeed, delta) in useFrame of s
Advance(s, delta) ==
  Damp(progress[s], velocity[s], DampTarget(treeState), DampSpeed(s, treeState), delta)

\* damp(modeRef, 'current', active ? 1 : 0, 3.0, delta) in GingerbreadMan
AdvanceMode(delta) ==
  Damp(modeRef, modeVel, IF active THEN One ELSE 0, 3 * One, delta)

\* one tick of the render loop: every mounted subsystem's useFrame callback
Frame ==
  /\ now > lastFrame
  /\ LET delta == now - lastFrame
         next == [s \in ProgressSubs |-> Advance(s, Seconds(delta))]
         mode == AdvanceMode(Seconds(delta))
         burstMult == burstRef["Ornaments"]
     IN  /\ progress' = [s \in ProgressSubs |->
                           IF mounted[s] THEN next[s].cur ELSE progress[s]]
         /\ blendP' = [s \in ProgressSubs |->
                           IF mounted[s]
                           THEN [i \in 1..NumEntities |->
                                   ReadProgress(progress[s], next[s].cur)]
                           ELSE blendP[s]]
         /\ modeRef' = IF mounted["GingerbreadMan"] THEN mode.cur ELSE modeRef
         /\ modeVel' = IF mounted["GingerbreadMan"] THEN mode.vel ELSE modeVel
         /\ rotation' = IF mounted["Ornaments"]
                        THEN [i \in 1..NumEntities |->
                                tempRot + SpinUpTo(burstMult, i)]
                        ELSE rotation
         /\ tempRot' = IF mounted["Ornaments"]
                       THEN tempRot + SpinUpTo(burstMult, NumEntities)
                       ELSE tempRot
         /\ starRot' = IF mounted["StarTop"]
                       THEN starRot + delta * StarSpin * burstRef["StarTop"]
                       ELSE starRot
         /\ camPos' = IF mounted["Experience"]
                      THEN CameraZoom(camPos, treeState, delta)
                      ELSE camPos
         /\ velocity' = [s \in ProgressSubs |->
                           IF mounted[s] THEN next[s].vel ELSE velocity[s]]
         /\ lastDelta' = delta
         /\ settleCount' = [s \in ProgressSubs |->
              IF /\ mounted[s]
                 /\ Abs(progress[s] - DampTarget(treeState)) > DampEps
                 /\ Abs(next[s].cur - DampTarget(treeState)) <= DampEps
              THEN [settleCount[s] EXCEPT ![treeState] = sinceToggle + 1]
              ELSE settleCount[s]]
  /\ lastFrame' = now
  /\ frames' = frames + 1
  /\ elapses' = 0
  /\ sinceToggle' = sinceToggle + 1
  /\ UNCHANGED << treeState, now, mounted, burstRef, autoRotateSpeed, timers,
                  cleanup, nextTimerId, data, memoRange, toggles, unmounts,
                  effectAt, prevScatterAt, disposedPending >>
  /\ UNCHANGED << orbits, active, clicks, call, switchAt >>

\* variant: teardown that leaves the pending timers armed
UnmountNoCleanup ==
  /\ \E s \in Subsystems : mounted[s]
  /\ unmounts < MaxUnmounts
  /\ unmounts' = unmounts + 1
  /\ mounted' = [s \in Subsystems |-> FALSE]
  /\ UNCHANGED << treeState, now, lastFrame, progress, velocity, burstRef,
                  autoRotateSpeed, timers, cleanup, nextTimerId, data, memoRange,
                  frames, toggles, elapses, lastDelta, effectAt, prevScatterAt,
                  sinceToggle, settleCount, disposedPending >>
  /\ UNCHANGED << camVars, charVars, spinVars, call, switchAt >>

\* the scene (Experience and the subsystems it renders) is torn down: refs
\* detach and the cleanup of every burst effect runs
Unmount ==
  /\ \E s \in Subsystems : mounted[s]
  /\ unmounts < MaxUnmounts
  /\ unmounts' = unmounts + 1
  /\ mounted' = [s \in Subsystems |-> FALSE]
  /\ timers' = RunCleanups({s \in BurstSubs : mounted[s]}, timers)
  /\ cleanup' = [b \in BurstSubs |-> NoTimer]
  /\ prevScatterAt' = [b \in BurstSubs |-> -1]
  /\ disposedPending' = [b \in BurstSubs |->
       IF \E t \in timers : t.owner = b
       THEN (CHOOSE t \in timers : t.owner = b).deadline ELSE -1]
  /\ UNCHANGED << treeState, now, lastFrame, progress, velocity, burstRef,
                  autoRotateSpeed, nextTimerId, data, memoRange, frames, toggles,
                  elapses, lastDelta, effectAt, sinceToggle, settleCount >>
  /\ UNCHANGED << camVars, charVars, spinVars, call, switchAt >>

\* the scene is mounted again: fresh refs, useMemo factories, then the effects
Mount ==
  /\ \A s \in Subsystems : ~mounted[s]
  /\ mounted' = [s \in Subsystems |-> TRUE]
  /\ progress' = [p \in ProgressSubs |-> 0]
  /\ velocity' = [p \in ProgressSubs |-> 0]
  /\ RunEffects(BurstSubs, treeState)
  /\ \E n \in 1..NumSamples :
       data' = [p \in ProgressSubs |-> IF p = "Ornaments" THEN n ELSE 1]
  /\ memoRange' = NewArray(memoRange)
  /\ settleCount' = [p \in ProgressSubs |-> [m \in TreeStates |-> 0]]
  /\ disposedPending' = [b \in BurstSubs |-> -1]
  /\ active' = FALSE
  /\ modeRef' = 0
  /\ modeVel' = 0
  /\ tempRot' = 0
  /\ rotation' = [i \in 1..NumEntities |-> 0]
  /\ starRot' = 0
  /\ blendP' = [p \in ProgressSubs |-> [i \in 1..NumEntities |-> 0]]
  /\ UNCHANGED << treeState, now, lastFrame, frames, toggles, unmounts, elapses,
                  lastDelta, sinceToggle, camVars, clicks, call, switchAt >>

\* the user drags the orbit controls: the camera turns about the focal point
\* to direction dir and keeps its distance
Orbit(dir) ==
  /\ mounted["Experience"]
  /\ orbits < MaxOrbits
  /\ orbits' = orbits + 1
  /\ LET len == Length(camPos)
     IN  camPos' = [i \in 1..3 |-> TruncDiv(dir.v[i] * len, dir.n)]
  /\ camPos' # camPos
  /\ UNCHANGED << coreVars, charVars, spinVars, call, switchAt >>

\* the user turns the wheel of the orbit controls: the camera moves along
\* its view direction to distance dist
Dolly(dist) ==
  /\ mounted["Experience"]
  /\ orbits < MaxOrbits
  /\ orbits' = orbits + 1
  /\ camPos' = SetLength(camPos, dist)
  /\ camPos' # camPos
  /\ UNCHANGED << coreVars, charVars, spinVars, call, switchAt >>

\* variant: a click on the character that also toggles the scene
ClickCharacterFlips ==
  /\ mounted["GingerbreadMan"]
  /\ clicks < MaxClicks
  /\ clicks' = clicks + 1
  /\ active' = ~active
  /\ treeState' = Flip(treeState)
  /\ UNCHANGED << now, lastFrame, mounted, progress, velocity, burstRef,
                  autoRotateSpeed, timers, cleanup, nextTimerId, data, memoRange,
                  frames, toggles, unmounts, elapses, lastDelta, effectAt,
                  prevScatterAt, sinceToggle, settleCount, disposedPending >>
  /\ UNCHANGED << camVars, spinVars, call, switchAt, modeRef, modeVel >>

\* GingerbreadMan group onClick: setActive(!active)
ClickCharacter ==
  /\ mounted["GingerbreadMan"]
  /\ clicks < MaxClicks
  /\ clicks' = clicks + 1
  /\ active' = ~active
  /\ UNCHANGED << coreVars, camVars, spinVars, call, switchAt, modeRef, modeVel >>

\* a call of normalize
CallNormalize(val, max, min) ==
  /\ call.fn = "none"
  /\ call' = [fn |-> "normalize", args |-> << val, max, min >>,
               result |-> normalize(val, max, min)]
  /\ UNCHANGED << coreVars, camVars, charVars, spinVars, switchAt >>

\* one entity's scatterPos is built in the useMemo of subsystem s
SampleScatter(s, u, v, w) ==
  /\ call.fn = "none"
  /\ call' = [fn |-> "scatterPos", sub |-> s, radius |-> ScatterRadius(s),
               result |-> ScatterPos(s, u, v, w)]
  /\ UNCHANGED << coreVars, camVars, charVars, spinVars, switchAt >>

\* one entity's treePos is built in the useMemo of subsystem s
SampleFormation(s, range, draw, rx, ry, rz) ==
  /\ call.fn = "none"
  /\ s # "Ornaments" => range = << 0, Milli >>
  /\ s = "MagicSpiral" => (draw % 250 = 0 /\ rx = 0 /\ ry = 0 /\ rz = 0)
  /\ LET t == HeightParam(s, range, draw)
     IN  call' = [fn |-> "treePos", sub |-> s, range |-> range, t |-> t,
                  result |-> TreePos(s, t, rx, ry, rz)]
  /\ UNCHANGED << coreVars, camVars, charVars, spinVars, switchAt >>

Next ==
  \/ Toggle
  \/ \E d \in Steps : Elapse(d)
  \/ \E t \in timers : TimerFire(t)
  \/ Frame

Spec == Init /\ [][Next]_vars

\* the scene with subsystems torn down and mounted again
NextLife ==
  \/ Toggle
  \/ Elapse(BigStep)
  \/ \E t \in timers : TimerFire(t)
  \/ Frame
  \/ Unmount
  \/ Mount

SpecLife == Init /\ [][NextLife]_vars

\* the scene with teardown, remount and clicks on the hidden character
NextHost ==
  \/ (toggles + unmounts + clicks < MaxInputs /\ Press)
  \/ Elapse(BigStep)
  \/ \E t \in timers : TimerFire(t)
  \/ Frame
  \/ (toggles + unmounts + clicks < MaxInputs /\ Unmount)
  \/ Mount
  \/ (toggles + unmounts + clicks < MaxInputs /\ ClickCharacter)

SpecHost == Init /\ [][NextHost]_vars

\* fixed-rate runs: frame ticks at one fixed delta, the button pressed only
\* once every subsystem has settled
AllSettled == \A s \in ProgressSubs : progress[s] = DampTarget(treeState)

ElapseSettle(d) ==
  /\ now = lastFrame
  /\ frames = 0 \/ d = lastDelta
  /\ ~AllSettled
  /\ Tick(d)

ToggleSettled ==
  /\ AllSettled
  /\ now = lastFrame
  /\ toggles < MaxSettleToggles
  /\ toggles' = toggles + 1
  /\ Render

NextSettle ==
  \/ \E d \in SettleSteps : ElapseSettle(d)
  \/ Frame
  \/ ToggleSettled
  \/ \E t \in timers : TimerFire(t)

SpecSettle == Init /\ [][NextSettle]_vars

\* fixed-rate runs with the user turning the camera: the button is pressed
\* only once the zoom and every subsystem have come to rest
CameraSettled ==
  Abs((IF treeState = "TREE_SHAPE" THEN TreeDist ELSE ScatterDist) - Length(camPos))
    <= ZoomThreshold

ElapseCamera(d) ==
  /\ now = lastFrame
  /\ frames = 0 \/ d = lastDelta \/ lastDelta \notin Steps
  /\ ~(CameraSettled /\ AllSettled)
  /\ Tick(d)

PressSettled ==
  /\ CameraSettled
  /\ AllSettled
  /\ now = lastFrame
  /\ Press

NextCamera ==
  \/ \E d \in Steps : ElapseCamera(d)
  \/ Frame
  \/ PressSettled
  \/ \E t \in timers : TimerFire(t)
  \/ \E dir \in ViewDirs : (sinceToggle <= OrbitWindow /\ Orbit(dir))

SpecCamera == Init /\ [][NextCamera]_vars

\* fixed-rate runs of the render loop at 1/60 s, 0.1 s or 1.5 s a frame, the
\* user pressing the button once the zoom has come to rest and turning or
\* dollying the camera before the next frame tick: requestAnimationFrame
\* keeps calling the loop, time keeps passing and due timers fire
ZoomSteps == {4} \cup Steps

ElapseZoom(d) ==
  /\ now = lastFrame
  /\ frames = 0 \/ d = lastDelta \/ lastDelta \notin ZoomSteps
  /\ ~CameraSettled
  /\ Tick(d)

PressZoom ==
  /\ CameraSettled
  /\ now = lastFrame
  /\ Press

\* the user may act on the camera: before the first frame tick of a mode,
\* within the budget of inputs
MayMoveCamera ==
  /\ sinceToggle = 0
  /\ now = lastFrame
  /\ toggles + orbits < MaxPresses

NextZoom ==
  \/ \E d \in ZoomSteps : ElapseZoom(d)
  \/ Frame
  \/ (toggles + orbits < MaxPresses /\ PressZoom)
  \/ \E t \in timers : TimerFire(t)
  \/ \E dir \in ViewDirs : (MayMoveCamera /\ Orbit(dir))
  \/ \E dist \in DollyDists : (MayMoveCamera /\ Dolly(dist))

\* weak fairness of Frame, stated on its enabling condition: Frame is
\* enabled exactly when now > lastFrame, and a Frame step ends with
\* now = lastFrame, so WF_vars(Frame) holds of a behaviour of NextZoom
\* exactly when no frame tick is pending infinitely often
FrameRuns == []<>(now = lastFrame)

SpecZoom ==
  /\ Init /\ [][NextZoom]_vars
  /\ WF_vars(\E d \in ZoomSteps : ElapseZoom(d))
  /\ FrameRuns
  /\ WF_vars(\E t \in timers : TimerFire(t))

\* population construction and the utility functions, over the draws: each
\* behaviour makes one call
NormArgs == {-3000, 0, 3000, 5000, 10000}

NextMath ==
  \/ \E val \in NormArgs : \E max \in NormArgs : \E min \in NormArgs :
       CallNormalize(val, max, min)
  \/ \E s \in ScatterSubs : \E u \in DrawsU : \E v \in DrawsV : \E w \in DrawsW :
       SampleScatter(s, u, v, w)
  \/ \E s \in CurveSubs : \E range \in Ranges : \E draw \in DrawsT :
       \E rx \in DrawsJ : \E ry \in DrawsJ : \E rz \in DrawsJ :
         SampleFormation(s, range, draw, rx, ry, rz)

SpecMath == Init /\ [][NextMath]_vars

\* ------------------------------------------------------------------ claims
BurstRefSubs == {"Ornaments", "StarTop"}
FiveSeconds == 5 * TicksPerSecond
SettleBound == 12 * TicksPerSecond

TimersOf(s) == {t \in timers : t.owner = s}

\* C1: in Ornaments and StarTop, once the effect has run for mode SCATTERED
\* the multiplier is 2 for as long as fewer than 3 s have passed since then and
\* the mode has not changed, and it is 1 again as soon as more than 3 s have
\* passed: the reversion happens at the 3 s mark, never before and never after.
BurstHoldsForDuration ==
  \A s \in BurstRefSubs :
    (mounted[s] /\ treeState = "SCATTERED") =>
      /\ now < effectAt[s] + BurstTicks => burstRef[s] = BurstOn
      /\ now > effectAt[s] + BurstTicks => burstRef[s] = BurstOff

BurstRevertedOnTime ==
  /\ treeState = "SCATTERED"
  /\ toggles = 1
  /\ now = effectAt["StarTop"] + BurstTicks
  /\ burstRef["StarTop"] = BurstOff
  /\ burstRef["Ornaments"] = BurstOn

\* a burst is triggered again before the window of the earlier burst has ended
Retriggered(s) ==
  /\ mounted[s]
  /\ treeState = "SCATTERED"
  /\ prevScatterAt[s] >= 0
  /\ effectAt[s] < prevScatterAt[s] + BurstTicks

\* C2: when SCATTERED is re-entered before the 3 s window of the earlier burst
\* has ended, no reversion of the earlier burst stays pending (the only timer
\* is the one due 3 s after the second trigger), and the multiplier is 2 until
\* 3 s after the second trigger and 1 after that.
RetriggerRestartsWindow ==
  \A s \in BurstRefSubs :
    Retriggered(s) =>
      /\ \A t \in TimersOf(s) : t.deadline = effectAt[s] + BurstTicks
      /\ now < effectAt[s] + BurstTicks => burstRef[s] = BurstOn
      /\ now > effectAt[s] + BurstTicks => burstRef[s] = BurstOff

RetriggerOutlivesFirstWindow ==
  /\ Retriggered("Ornaments")
  /\ effectAt["Ornaments"] > prevScatterAt["Ornaments"]
  /\ now > prevScatterAt["Ornaments"] + BurstTicks
  /\ now < effectAt["Ornaments"] + BurstTicks
  /\ burstRef["Ornaments"] = BurstOn

\* C3: whatever the sequence of toggles, frame ticks, timer firings, mounts
\* and unmounts, every burst-capable subsystem has at most one pending
\* reversion timer and its multiplier is never above the burst value 2.
OneTimerNoStacking ==
  \A s \in BurstSubs :
    /\ Cardinality(TimersOf(s)) <= 1
    /\ Multiplier(s) <= BurstOn

RetriggeredAfterRemount ==
  /\ toggles = 3
  /\ unmounts = 1
  /\ frames > 0
  /\ \A s \in BurstSubs :
       mounted[s] /\ Cardinality(TimersOf(s)) = 1 /\ Multiplier(s) = BurstOn

\* C4: once a burst-capable subsystem is torn down none of its timers stays
\* pending, and while it stays torn down nothing writes its multiplier (or the
\* controls' auto-rotate speed).
DisposalCancelsTimer ==
  [][\A s \in BurstSubs :
       ~mounted'[s] =>
         /\ TimersOf(s)' = {}
         /\ ~mounted[s] => Multiplier(s)' = Multiplier(s)]_vars

DisposedMidBurst ==
  /\ ~mounted["StarTop"]
  /\ disposedPending["StarTop"] >= 0
  /\ now > disposedPending["StarTop"]
  /\ burstRef["StarTop"] = BurstOn

\* C5: toggling the mode, frame ticks and timer firings leave every stored
\* population (scatterPos / formationPos) as it was.
PositionsImmutable == [][mounted' = mounted => data' = data]_vars

\* C6: the progress of every subsystem lies in [0,1] in every reachable state.
ProgressInUnitInterval ==
  \A s \in ProgressSubs : 0 <= progress[s] /\ progress[s] <= One

\* C7: while the mode stays the same a frame tick never moves progress away
\* from the current target: not up in SCATTERED, not down in TREE_SHAPE.
ProgressMonotone ==
  [][(treeState' = treeState /\ mounted' = mounted) =>
       \A s \in ProgressSubs :
         /\ treeState = "SCATTERED" => progress'[s] <= progress[s]
         /\ treeState = "TREE_SHAPE" => progress'[s] >= progress[s]]_vars

\* C8: at the same fixed frame delta, a subsystem needs fewer frames to come
\* within epsilon of 0 after a switch to SCATTERED than to come within epsilon
\* of 1 after a switch to TREE_SHAPE.
DispersalFaster ==
  \A s \in ProgressSubs :
    (settleCount[s]["SCATTERED"] > 0 /\ settleCount[s]["TREE_SHAPE"] > 0) =>
      settleCount[s]["SCATTERED"] < settleCount[s]["TREE_SHAPE"]

\* C9: from progress = 0 with target 1 and frame ticks of a fixed delta,
\* every frame tick strictly increases progress until it is 1, progress never
\* exceeds 1, and it is within 0.001 of 1 once 5 s have passed; with the mode
\* held, every subsystem has settled at its target once 12 s have passed.
FixedRateConverges ==
  [][frames' = frames + 1 =>
       \A s \in ProgressSubs :
         /\ toggles = 0 =>
              /\ progress[s] < One => progress'[s] > progress[s]
              /\ progress'[s] <= One
              /\ now >= FiveSeconds => One - progress'[s] <= DampEps
         /\ sinceToggle' * lastDelta' >= SettleBound =>
              progress'[s] = DampTarget(treeState)]_vars

SettledWithinFiveSeconds ==
  /\ toggles = 0
  /\ AllSettled
  /\ lastDelta = 4
  /\ frames <= 300
  /\ now <= FiveSeconds

\* C10: the delta a frame tick hands to damp() is never above the clamp of
\* 0.1 s, however long the frame took.
DeltaClamped == lastDelta <= SafeDelta

ZoomKeepsDirection ==
  [][frames' = frames + 1 =>
       LET targetDist == IF treeState = "TREE_SHAPE" THEN TreeDist ELSE ScatterDist
       IN  /\ Abs(targetDist - Length(camPos)) <= ZoomThreshold => camPos' = camPos
           /\ \A i \in 1..3 :
                /\ camPos'[i] * camPos[i] >= 0
                /\ camPos[i] = 0 => camPos'[i] = 0
           /\ \A i \in 1..3 : \A j \in 1..3 :
                Abs(camPos'[i] * camPos[j] - camPos'[j] * camPos[i])
                  <= Abs(camPos[i]) + Abs(camPos[j])]_vars

ZoomedAlongTurnedView ==
  /\ orbits = 1
  /\ camPos[1] # 0
  /\ camPos[2] # 0
  /\ treeState = "SCATTERED"
  /\ sinceToggle > 1
  /\ now = lastFrame
  /\ CameraSettled
  /\ ~AllSettled

\* C13: normalize(val, max, min) returns (val - min) / (max - min) when
\* max # min (0.5 for (5, 10, 0), 0 for (0, 10, 0)), and fails with a domain
\* error, returning no value, when max = min.
NormalizeChecksDomain ==
  call.fn = "normalize" =>
    LET val == call.args[1]
        max == call.args[2]
        min == call.args[3]
    IN  IF max = min
        THEN call.result.kind = "DomainError"
        ELSE /\ call.result.kind = "number"
             /\ Abs(call.result.value * (max - min) - (val - min) * Milli)
                  < Abs(max - min)
             /\ call.args = << 5000, 10000, 0 >> => call.result.value = 500
             /\ call.args = << 0, 10000, 0 >> => call.result.value = 0

\* C14: the scatterPos a subsystem stores for an entity lies inside the
\* solid sphere of that subsystem's scatter radius.
ScatterInsideSphere ==
  call.fn = "scatterPos" =>
    LET p == call.result
    IN  p[1] * p[1] + p[2] * p[2] + p[3] * p[3] <= call.radius * call.radius

\* C15: for t in [0, 1] the formation position at height parameter t has
\* every coordinate within jitter/2 of the point of the ideal helix, which is
\* at height (t - 0.5) * H and at horizontal radius R * (1 - t); with zero
\* jitter the height and the horizontal radius are exactly those.
FormationOnCurve ==
  (call.fn = "treePos" /\ 0 <= call.t /\ call.t <= Milli) =>
    LET c == CurveParams(call.sub)
        p == call.result
        q == (4 * call.t * c.turns) \div Milli
        idealY == TruncDiv((call.t - Milli \div 2) * c.H, Milli)
        idealR == TruncDiv(c.R * (Milli - call.t), Milli)
        idealX == TruncDiv(CosQ(q) * idealR, Milli)
        idealZ == TruncDiv(SinQ(q) * idealR, Milli)
    IN  /\ 2 * Abs(p[1] - idealX) <= c.jitter
        /\ 2 * Abs(p[2] - idealY) <= c.jitter
        /\ 2 * Abs(p[3] - idealZ) <= c.jitter
        /\ c.jitter = 0 =>
              /\ p[2] = idealY
              /\ p[1] * p[1] + p[3] * p[3] = idealR * idealR

\* C16: a frame tick of delta seconds turns each ornament by its own
\* rotationSpeed times the burst multiplier times delta, and the star by
\* 1.5 times the burst multiplier times delta (both sides are scaled by the
\* number of ticks in a second).
RotationIsOwnIncrement ==
  [][frames' = frames + 1 =>
       /\ mounted["Ornaments"] =>
            \A i \in 1..NumEntities :
              TicksPerSecond * (rotation'[i] - rotation[i])
                = RotationSpeed(i) * burstRef["Ornaments"] * (now - lastFrame)
       /\ mounted["StarTop"] =>
            starRot' - starRot = (now - lastFrame) * StarSpin * burstRef["StarTop"]]_vars

\* C17: in a frame tick the progress of every subsystem is the result of
\* one call of damp() on its previous value, and every entity of the subsystem
\* is blended with that new value.
ProgressOncePerTick ==
  [][frames' = frames + 1 =>
       \A s \in ProgressSubs :
         mounted[s] =>
           /\ progress'[s] = Damp(progress[s], velocity[s], DampTarget(treeState),
                                  DampSpeed(s, treeState), Seconds(now - lastFrame)).cur
           /\ \A i \in 1..NumEntities : blendP'[s][i] = progress'[s]]_vars

BlendedMidTransition ==
  /\ frames > 1
  /\ treeState = "SCATTERED"
  /\ now = lastFrame
  /\ \A s \in ProgressSubs :
       /\ 0 < progress[s]
       /\ progress[s] < One
       /\ \A i \in 1..NumEntities : blendP[s][i] = progress[s]

\* C18: the mode is always TREE_SHAPE or SCATTERED; a press of the overlay
\* button flips it, and no other step (frame tick, timer firing, effect
\* cleanup, teardown, remount, click on the hidden character) changes it.
ModeWrittenOnlyByToggle ==
  [][/\ treeState' \in TreeStates
     /\ toggles' = toggles + 1 => treeState' = Flip(treeState)
     /\ toggles' = toggles => treeState' = treeState]_vars

HostBusyModeKept ==
  /\ toggles = 1
  /\ clicks = 1
  /\ unmounts = 1
  /\ frames > 1
  /\ treeState = "SCATTERED"
  /\ mounted["Ornaments"]
  /\ burstRef["Ornaments"] = BurstOff
  /\ timers = {}

\* C19: a population is built only from a valid configuration: the range
\* of an Ornaments instance satisfies 0 <= minT <= maxT <= 1 (any other range
\* is rejected before an entity is built), so every stored formation position
\* has its height parameter in [0, 1].
ConstructionValidated ==
  call.fn = "treePos" =>
    /\ 0 <= call.range[1]
    /\ call.range[1] <= call.range[2]
    /\ call.range[2] <= Milli
    /\ 0 <= call.t
    /\ call.t <= Milli

\* C20: for every mounted burst-capable subsystem, the multiplier is 2 only
\* if the mode is SCATTERED and exactly one reversion timer of the subsystem
\* is pending; while the mode is TREE_SHAPE the multiplier is 1 (auto-rotate
\* speed 0.3) and none of its timers is pending.  A subsystem that is torn
\* down has no pending timer.
BurstOnlyWhileScattered ==
  \A s \in BurstSubs :
    /\ mounted[s] =>
         /\ Multiplier(s) = BurstOn =>
              (treeState = "SCATTERED" /\ Cardinality(TimersOf(s)) = 1)
         /\ treeState = "TREE_SHAPE" =>
              (Multiplier(s) = RevertValue(s) /\ TimersOf(s) = {})
    /\ ~mounted[s] => TimersOf(s) = {}

BurstCutShort ==
  /\ treeState = "TREE_SHAPE"
  /\ toggles = 2
  /\ frames > 0
  /\ \A s \in BurstSubs :
       /\ mounted[s]
       /\ prevScatterAt[s] >= 0
       /\ now < prevScatterAt[s] + BurstTicks
       /\ Multiplier(s) = RevertValue(s)
  /\ timers = {}
\* C21: a camera frame tick never carries the distance past the target (33
\* in TREE_SHAPE, 5 in SCATTERED): the new distance lies between the old one
\* and the target, the step is at most a quarter of the gap (plus the
\* rounding of the last digit carried by the three components), and the
\* distance stays a number above 0.1; once within 0.1 of the target the
\* position no longer changes; and from any distance the camera comes
\* within 0.1 of the target while the loop keeps running.
ZoomApproachesTarget ==
  /\ [][frames' = frames + 1 =>
         LET targetDist == IF treeState = "TREE_SHAPE" THEN TreeDist ELSE ScatterDist
             d0 == Length(camPos)
             d1 == Length(camPos')
         IN  /\ d0 <= targetDist => (d0 <= d1 /\ d1 <= targetDist)
             /\ d0 >= targetDist => (targetDist <= d1 /\ d1 <= d0)
             /\ Abs(targetDist - d0) > ZoomThreshold => d1 # d0
             /\ 4 * Abs(d1 - d0) <= Abs(targetDist - d0) + 12
             /\ d1 > ZoomThreshold
             /\ Abs(targetDist - d0) <= ZoomThreshold => camPos' = camPos]_vars
  /\ (~CameraSettled ~> CameraSettled)

ZoomCameToRest ==
  /\ treeState = "SCATTERED"
  /\ orbits = 0
  /\ lastDelta = BigStep
  /\ now = lastFrame
  /\ sinceToggle > 3
  /\ CameraSettled
  /\ Length(camPos) > ScatterDist
  /\ Length(camPos) < 2 * ScatterDist

====
